---- MODULE Spec2Model ----
(***************************************************************************)
(* Session & resolution layer of kroger-mcp: the two process-wide client  *)
(* slots of tools/shared.py with their token files, the preference file,  *)
(* the location resolution of tools/product_tools.py, and the ranking of   *)
(* the items on sale in test_prompts_ui.py.                                *)
(*                                                                         *)
(* Every tool-facing function is one action.  The upstream provider, the  *)
(* environment validation and the file system answer nondeterministically:*)
(* each function is modelled as the SET of outcomes its code can produce  *)
(* from a given state, one outcome per combination of answers.            *)
(***************************************************************************)
EXTENDS Integers, Sequences, FiniteSets, TLC

\* Number of KrogerAPI() objects / upstream-issued tokens one behaviour may create.
MaxHandles == 3
MaxTokens == 3

VARIABLES
    appSlot,    \* _client_credentials_client
    userSlot,   \* _authenticated_client
    appDisk,    \* content of .kroger_token_client_product.compact.json
    userDisk,   \* content of .kroger_token_user.json
    prefFile,   \* content of kroger_preferences.json
    nextId,     \* KrogerAPI() objects constructed so far
    nextTok,    \* tokens issued by the upstream provider so far
    op,         \* the last operation called, with its arguments
    log,        \* what the last operation did, in order
    ret,        \* what the last operation returned or raised
    catalog,    \* products["data"] the upstream catalog answers a search with
    ranked,     \* the limit argument and the sale_items of the last find_items_on_sale
    pricing     \* result["pricing"] of the last get_product_details, for catalog[1]

vars == <<appSlot, userSlot, appDisk, userDisk, prefFile, nextId, nextTok, op, log, ret,
          catalog, ranked, pricing>>

-----------------------------------------------------------------------------
\* Values

\* Python None / the empty string, for Optional[str] values.
PyNone == "<None>"
Truthy(s) == s # PyNone /\ s # ""

\* token_info: n identifies the token, rt says whether the record has a "refresh_token" key.
NoToken == [n |-> 0, rt |-> FALSE]
\* A KrogerAPI object with its client.token_info.  NoHandle is None.
NoHandle == [id |-> 0, tok |-> NoToken]

\* One entry of log.
Ev(e, n, ok, s) == [ev |-> e, n |-> n, ok |-> ok, s |-> s]
Probe(h, ok) == Ev("probe", h.tok.n, ok, "")
\* How many entries of lg are of kind e.
Count(lg, e) == Cardinality({i \in DOMAIN lg : lg[i].ev = e})

\* Exception messages are kept as the sequence of their parts.
EnvErr == <<"Missing required environment variables">>
ExchangeErr == <<"token request failed">>
AuthRequiredMsg == <<"Authentication required", ". Please use the start_authentication tool to begin the OAuth flow, then complete it with the complete_authentication tool.">>
Contains(e, part) == \E i \in DOMAIN e : e[i] = part

\* What an operation hands to its caller.
NoRet == [kind |-> "none", h |-> NoHandle, err |-> <<>>, loc |-> PyNone]
Session(h) == [kind |-> "session", h |-> h, err |-> <<>>, loc |-> PyNone]
Raise(e) == [kind |-> "raise", h |-> NoHandle, err |-> e, loc |-> PyNone]

\* One outcome of a session function: the slot and token file it leaves, the
\* counters, what it did and what it returned.
Out(slot, disk, hid, tid, lg, r) ==
    [slot |-> slot, disk |-> disk, hid |-> hid, tid |-> tid, log |-> lg, ret |-> r]

-----------------------------------------------------------------------------
\* Upstream liveness probe: the answers KrogerAPI.test_current_token() can give.
\* Without token_info no authenticated call can succeed.
\* Mutant: the probe can succeed for a client that holds no token.
test_current_token_Blind(h) == BOOLEAN

test_current_token(h) == IF h.tok = NoToken THEN {FALSE} ELSE BOOLEAN

-----------------------------------------------------------------------------
\* get_client_credentials_client

\* Mutant: the exception is passed on as it is.
AppExcept_Unwrapped(e) == e

\* except Exception as e: raise Exception(f"Failed to get client credentials: {str(e)}")
AppExcept(e) == <<"Failed to get client credentials: ">> \o e

\* Mutant: a failed credential exchange is tried a second time.
AppExchange_Retry(h, disk, hid, tid, lg) ==
    { IF x
      THEN LET t  == [n |-> tid + 1, rt |-> FALSE]
               h2 == [h EXCEPT !.tok = t]
           IN  Out(h2, t, hid, tid + 1,
                   lg \o <<Ev("exchange", 0, FALSE, ""), Ev("exchange", t.n, TRUE, "")>>, Session(h2))
      ELSE Out(h, disk, hid, tid,
               lg \o <<Ev("exchange", 0, FALSE, ""), Ev("exchange", 0, FALSE, "")>>,
               Raise(AppExcept(ExchangeErr)))
      : x \in BOOLEAN }

\* Credential exchange; the caller gets the client with no further probe.
AppExchange(h, disk, hid, tid, lg) ==
    { IF x
      THEN LET t  == [n |-> tid + 1, rt |-> FALSE]
               h2 == [h EXCEPT !.tok = t]
           IN  Out(h2, t, hid, tid + 1, Append(lg, Ev("exchange", t.n, TRUE, "")), Session(h2))
      ELSE Out(h, disk, hid, tid, Append(lg, Ev("exchange", 0, FALSE, "")),
               Raise(AppExcept(ExchangeErr)))
      : x \in BOOLEAN }

\* A new KrogerAPI() goes into the slot, then the token file is tried.
AppLoad(disk, hid, tid, lg) ==
    LET h   == [id |-> hid + 1, tok |-> NoToken]
        lg0 == Append(lg, Ev("new", h.id, TRUE, "app"))
        lg1 == Append(lg0, Ev("load", disk.n, disk # NoToken, "app"))
    IN  IF disk # NoToken
        THEN LET h1 == [h EXCEPT !.tok = disk]
             IN  UNION { IF p
                         THEN {Out(h1, disk, hid + 1, tid, Append(lg1, Probe(h1, TRUE)), Session(h1))}
                         ELSE AppExchange(h1, disk, hid + 1, tid, Append(lg1, Probe(h1, FALSE)))
                         : p \in test_current_token(h1) }
        ELSE AppExchange(h, disk, hid + 1, tid, lg1)

\* The slot is cleared, the environment validated; a failure leaves the slot None.
AppReacquire(disk, hid, tid, lg) ==
    {Out(NoHandle, disk, hid, tid, lg, Raise(AppExcept(EnvErr)))}
        \cup AppLoad(disk, hid, tid, lg)

\* Mutant: the slot is cleared only once the environment has been validated.
get_client_credentials_client_KeepOnFail(slot, disk, hid, tid) ==
    IF slot # NoHandle
    THEN UNION { IF p
                 THEN {Out(slot, disk, hid, tid, <<Probe(slot, TRUE)>>, Session(slot))}
                 ELSE {Out(slot, disk, hid, tid, <<Probe(slot, FALSE)>>, Raise(AppExcept(EnvErr)))}
                          \cup AppLoad(disk, hid, tid, <<Probe(slot, FALSE)>>)
                 : p \in test_current_token(slot) }
    ELSE AppReacquire(disk, hid, tid, <<>>)

\* Mutant: a client already held is handed out without probing it.
get_client_credentials_client_NoProbe(slot, disk, hid, tid) ==
    IF slot # NoHandle
    THEN {Out(slot, disk, hid, tid, <<>>, Session(slot))}
    ELSE AppReacquire(disk, hid, tid, <<>>)

get_client_credentials_client(slot, disk, hid, tid) ==
    IF slot # NoHandle
    THEN UNION { IF p
                 THEN {Out(slot, disk, hid, tid, <<Probe(slot, TRUE)>>, Session(slot))}
                 ELSE AppReacquire(disk, hid, tid, <<Probe(slot, FALSE)>>)
                 : p \in test_current_token(slot) }
    ELSE AppReacquire(disk, hid, tid, <<>>)

-----------------------------------------------------------------------------
\* get_authenticated_client

\* Mutant: every exception is wrapped, the authentication-required one included.
UserExcept_WrapAll(e) == <<"Authentication failed: ">> \o e

\* except Exception as e: re-raise when "Authentication required" is in the
\* message, else raise Exception(f"Authentication failed: {str(e)}")
UserExcept(e) ==
    IF Contains(e, "Authentication required") THEN e ELSE <<"Authentication failed: ">> \o e

\* raise Exception("Authentication required. ...") at the end of the try block.
UserRequireAuth(slot, disk, hid, tid, lg) ==
    Out(slot, disk, hid, tid, lg, Raise(UserExcept(AuthRequiredMsg)))

\* Mutant: the refreshed client is returned without the probe.
UserAfterRefresh_NoProbe(h, hid, tid, lg) ==
    {Out(h, h.tok, hid, tid, lg, Session(h))}

\* After a refresh that did not raise: the refreshed token is probed.
UserAfterRefresh(h, hid, tid, lg) ==
    { IF p
      THEN Out(h, h.tok, hid, tid, Append(lg, Probe(h, TRUE)), Session(h))
      ELSE UserRequireAuth(h, h.tok, hid, tid, Append(lg, Probe(h, FALSE)))
      : p \in test_current_token(h) }

\* Mutant: a failed refresh is tried a second time.
UserRefresh_Twice(h, disk, hid, tid, lg) ==
    IF h.tok.rt
    THEN UNION { IF r
                 THEN LET t == [n |-> tid + 1, rt |-> TRUE]
                      IN  UserAfterRefresh([h EXCEPT !.tok = t], hid, tid + 1,
                                           Append(lg, Ev("refresh", t.n, TRUE, "")))
                 ELSE {UserRequireAuth(NoHandle, disk, hid, tid,
                                       lg \o <<Ev("refresh", 0, FALSE, ""), Ev("refresh", 0, FALSE, "")>>)}
                 : r \in BOOLEAN }
    ELSE {UserRequireAuth(h, disk, hid, tid, lg)}

\* Mutant: the refresh is tried whether or not the record has a refresh token.
UserRefresh_Always(h, disk, hid, tid, lg) ==
    UNION { IF r
            THEN LET t == [n |-> tid + 1, rt |-> TRUE]
                 IN  UserAfterRefresh([h EXCEPT !.tok = t], hid, tid + 1,
                                      Append(lg, Ev("refresh", t.n, TRUE, "")))
            ELSE {UserRequireAuth(NoHandle, disk, hid, tid,
                                  Append(lg, Ev("refresh", 0, FALSE, "")))}
            : r \in BOOLEAN }

\* The loaded token failed its probe: refresh when the record has a refresh token.
UserRefresh(h, disk, hid, tid, lg) ==
    IF h.tok.rt
    THEN UNION { IF r
                 THEN LET t == [n |-> tid + 1, rt |-> TRUE]
                      IN  UserAfterRefresh([h EXCEPT !.tok = t], hid, tid + 1,
                                           Append(lg, Ev("refresh", t.n, TRUE, "")))
                 ELSE {UserRequireAuth(NoHandle, disk, hid, tid,
                                       Append(lg, Ev("refresh", 0, FALSE, "")))}
                 : r \in BOOLEAN }
    ELSE {UserRequireAuth(h, disk, hid, tid, lg)}

\* Mutant: a record that parses is trusted and returned without a probe.
UserLoad_Trust(disk, hid, tid, lg) ==
    LET lg1 == Append(lg, Ev("load", disk.n, disk # NoToken, "user"))
    IN  IF disk # NoToken
        THEN LET h == [id |-> hid + 1, tok |-> disk]
             IN  {Out(h, disk, hid + 1, tid, Append(lg1, Ev("new", h.id, TRUE, "user")), Session(h))}
        ELSE {UserRequireAuth(NoHandle, disk, hid, tid, lg1)}

\* The token file is tried; a record found goes into a new KrogerAPI().
UserLoad(disk, hid, tid, lg) ==
    LET lg1 == Append(lg, Ev("load", disk.n, disk # NoToken, "user"))
    IN  IF disk # NoToken
        THEN LET h   == [id |-> hid + 1, tok |-> disk]
                 lg2 == Append(lg1, Ev("new", h.id, TRUE, "user"))
             IN  UNION { IF p
                         THEN {Out(h, disk, hid + 1, tid, Append(lg2, Probe(h, TRUE)), Session(h))}
                         ELSE UserRefresh(h, disk, hid + 1, tid, Append(lg2, Probe(h, FALSE)))
                         : p \in test_current_token(h) }
        ELSE {UserRequireAuth(NoHandle, disk, hid, tid, lg1)}

\* The slot is cleared, the environment validated; a failure leaves the slot None.
UserReacquire(disk, hid, tid, lg) ==
    {Out(NoHandle, disk, hid, tid, lg, Raise(UserExcept(EnvErr)))}
        \cup UserLoad(disk, hid, tid, lg)

get_authenticated_client(slot, disk, hid, tid) ==
    IF slot # NoHandle
    THEN UNION { IF p
                 THEN {Out(slot, disk, hid, tid, <<Probe(slot, TRUE)>>, Session(slot))}
                 ELSE UserReacquire(disk, hid, tid, <<Probe(slot, FALSE)>>)
                 : p \in test_current_token(slot) }
    ELSE UserReacquire(disk, hid, tid, <<>>)

-----------------------------------------------------------------------------
\* Preference store (kroger_preferences.json)

LocIds == {"01400441", "70100153"}

\* The file: absent, unparseable, or a JSON object whose preferred_location_id
\* is pref and whose other key (if any) has the value extra.
PrefFileOf(kind, pref, extra) == [kind |-> kind, pref |-> pref, extra |-> extra]
AbsentFile == PrefFileOf("absent", PyNone, PyNone)
CorruptFile == PrefFileOf("corrupt", PyNone, PyNone)

\* The dict in memory: the file's object, or the default when the file is
\* missing or json.load raises (a warning is printed).
_load_preferences(file) ==
    IF file.kind = "json"
    THEN [pref |-> file.pref, extra |-> file.extra]
    ELSE [pref |-> PyNone, extra |-> PyNone]

\* What a save can do: write the dict, or (open/dump raised, a warning is
\* printed) leave the file as it was.  Either way it returns None.
_save_preferences(file, preferences) ==
    { [file |-> IF w THEN PrefFileOf("json", preferences.pref, preferences.extra) ELSE file,
       log  |-> <<Ev("save", 0, w, preferences.pref)>>] : w \in BOOLEAN }

\* Mutant: the stored value is not read.
get_preferred_location_id_Default(file) == PyNone

get_preferred_location_id(file) == _load_preferences(file).pref

\* The read of the preference file, as a log entry: ok is FALSE when json.load raised.
PrefsRead(file) == Ev("prefs_read", 0, file.kind # "corrupt", get_preferred_location_id(file))

\* Mutant: None is not written, so a preference cannot be cleared.
set_preferred_location_id_KeepOnNone(file, location_id) ==
    { [file |-> sv.file, log |-> <<PrefsRead(file)>> \o sv.log]
      : sv \in _save_preferences(file,
                   [_load_preferences(file) EXCEPT
                       !.pref = IF location_id = PyNone THEN @ ELSE location_id]) }

\* Mutant: a dict holding the one key is written instead of the loaded one.
set_preferred_location_id_Fresh(file, location_id) ==
    { [file |-> sv.file, log |-> <<PrefsRead(file)>> \o sv.log]
      : sv \in _save_preferences(file, [pref |-> location_id, extra |-> PyNone]) }

set_preferred_location_id(file, location_id) ==
    { [file |-> sv.file, log |-> <<PrefsRead(file)>> \o sv.log]
      : sv \in _save_preferences(file, [_load_preferences(file) EXCEPT !.pref = location_id]) }

-----------------------------------------------------------------------------
\* search_products (tools/product_tools.py)

NoLocationMsg == <<"No location_id provided, no preferred location set, and no valid zip_code provided. Please provide either location_id or zip_code.">>
NoProductsMsg == <<"No products found matching">>
UpstreamErr == <<"upstream request failed">>

DictOk(loc) == [kind |-> "dict_ok", h |-> NoHandle, err |-> <<>>, loc |-> loc]
DictFail(e) == [kind |-> "dict_fail", h |-> NoHandle, err |-> e, loc |-> PyNone]

\* The session state an operation threads through its steps, with its log so far.
Thread(slot, disk, hid, tid, lg) ==
    [slot |-> slot, disk |-> disk, hid |-> hid, tid |-> tid, log |-> lg]
\* The thread after a call of get_client_credentials_client with outcome o.
After(st, o) == Thread(o.slot, o.disk, o.hid, o.tid, st.log \o o.log)
Logged(st, e) == [st EXCEPT !.log = Append(@, e)]

\* One outcome of the resolution: the location (or None), or the exception raised.
Resolved(loc, st) == [loc |-> loc, raised |-> FALSE, err |-> <<>>, st |-> st]
ResolveRaised(e, st) == [loc |-> PyNone, raised |-> TRUE, err |-> e, st |-> st]

\* What client.location.search_locations(zip_code=..., limit=1) can answer: an
\* exception, no data, a first entry without "locationId", or one with it.
LookupAnswers == {"raise", "empty", "nokey"} \cup LocIds

\* Mutant: an exception of the lookup is passed on to the caller.
LookupByZip_Propagate(zip_code, st) ==
    UNION { IF o.ret.kind = "raise"
            THEN {ResolveRaised(o.ret.err, After(st, o))}
            ELSE { IF a = "raise"
                   THEN ResolveRaised(UpstreamErr,
                            Logged(After(st, o), Ev("search_locations", 0, FALSE, zip_code)))
                   ELSE Resolved(IF a \in LocIds THEN a ELSE PyNone,
                            Logged(After(st, o), Ev("search_locations", 0, TRUE, zip_code)))
                   : a \in LookupAnswers }
            : o \in get_client_credentials_client(st.slot, st.disk, st.hid, st.tid) }

\* The zip-code branch: the application client is fetched (outside the try),
\* then one lookup is made; its exception is logged and dropped.
LookupByZip(zip_code, st) ==
    UNION { IF o.ret.kind = "raise"
            THEN {ResolveRaised(o.ret.err, After(st, o))}
            ELSE { Resolved(IF a \in LocIds THEN a ELSE PyNone,
                            Logged(After(st, o), Ev("search_locations", 0, a # "raise", zip_code)))
                   : a \in LookupAnswers }
            : o \in get_client_credentials_client(st.slot, st.disk, st.hid, st.tid) }

\* Mutant: a stored preference wins over the location_id argument.
ResolveLocation_PrefFirst(location_id, zip_code, file, st) ==
    LET pref == get_preferred_location_id(file)
        st1  == Logged(st, PrefsRead(file))
    IN  IF Truthy(pref)
        THEN {Resolved(pref, st1)}
        ELSE IF Truthy(location_id)
        THEN {Resolved(location_id, st1)}
        ELSE IF Truthy(zip_code)
        THEN LookupByZip(zip_code, st1)
        ELSE {Resolved(pref, st1)}

\* Mutant: the preference file is read before the location_id argument is looked at.
ResolveLocation_ReadsPrefs(location_id, zip_code, file, st) ==
    LET pref == get_preferred_location_id(file)
        st1  == Logged(st, PrefsRead(file))
    IN  IF Truthy(location_id)
        THEN {Resolved(location_id, st1)}
        ELSE IF ~Truthy(pref) /\ Truthy(zip_code)
        THEN LookupByZip(zip_code, st1)
        ELSE {Resolved(pref, st1)}

\* location_id, else the preferred location, else the lookup by zip code.
ResolveLocation(location_id, zip_code, file, st) ==
    IF Truthy(location_id)
    THEN {Resolved(location_id, st)}
    ELSE LET pref == get_preferred_location_id(file)
             st1  == Logged(st, PrefsRead(file))
         IN  IF ~Truthy(pref) /\ Truthy(zip_code)
             THEN LookupByZip(zip_code, st1)
             ELSE {Resolved(pref, st1)}

\* What client.product.search_products(...) can answer.
CatalogAnswers == {"raise", "empty", "data"}

\* Mutant: the application client is fetched inside the try.
CatalogSearch_Caught(loc, st) ==
    UNION { IF o.ret.kind = "raise"
            THEN {Out(o.slot, o.disk, o.hid, o.tid, After(st, o).log, DictFail(o.ret.err))}
            ELSE { Out(o.slot, o.disk, o.hid, o.tid,
                       Append(After(st, o).log, Ev("search_products", 0, a # "raise", loc)),
                       CASE a = "raise" -> DictFail(UpstreamErr)
                         [] a = "empty" -> DictFail(NoProductsMsg)
                         [] OTHER       -> DictOk(loc))
                   : a \in CatalogAnswers }
            : o \in get_client_credentials_client(st.slot, st.disk, st.hid, st.tid) }

\* The application client is fetched (outside the try), then the catalog searched.
CatalogSearch(loc, st) ==
    UNION { IF o.ret.kind = "raise"
            THEN {Out(o.slot, o.disk, o.hid, o.tid, After(st, o).log, Raise(o.ret.err))}
            ELSE { Out(o.slot, o.disk, o.hid, o.tid,
                       Append(After(st, o).log, Ev("search_products", 0, a # "raise", loc)),
                       CASE a = "raise" -> DictFail(UpstreamErr)
                         [] a = "empty" -> DictFail(NoProductsMsg)
                         [] OTHER       -> DictOk(loc))
                   : a \in CatalogAnswers }
            : o \in get_client_credentials_client(st.slot, st.disk, st.hid, st.tid) }

\* Mutant: a lookup that found no store gets an error of its own.
search_products_TypedError(location_id, zip_code, file, st) ==
    UNION { IF r.raised
            THEN {Out(r.st.slot, r.st.disk, r.st.hid, r.st.tid, r.st.log, Raise(r.err))}
            ELSE IF ~Truthy(r.loc)
            THEN {Out(r.st.slot, r.st.disk, r.st.hid, r.st.tid, r.st.log,
                      IF Count(r.st.log, "search_locations") = 1
                      THEN DictFail(<<"No store found for zip code">>)
                      ELSE DictFail(NoLocationMsg))}
            ELSE CatalogSearch(r.loc, r.st)
            : r \in ResolveLocation(location_id, zip_code, file, st) }

search_products(location_id, zip_code, file, st) ==
    UNION { IF r.raised
            THEN {Out(r.st.slot, r.st.disk, r.st.hid, r.st.tid, r.st.log, Raise(r.err))}
            ELSE IF ~Truthy(r.loc)
            THEN {Out(r.st.slot, r.st.disk, r.st.hid, r.st.tid, r.st.log, DictFail(NoLocationMsg))}
            ELSE CatalogSearch(r.loc, r.st)
            : r \in ResolveLocation(location_id, zip_code, file, st) }

-----------------------------------------------------------------------------
\* get_product_details, get_product_images, search_products_by_id

NoPreferredMsg == <<"No location_id provided and no preferred location set. Use set_preferred_location first.">>
NotFoundMsg == <<"Product ", " not found">>
NoImagesMsg == <<"No images available for product ">>
NoPerspectiveMsg == <<"No image found for perspective ">>
NoProductsWithIdMsg == <<"No products found with ID ">>

\* The Image object get_product_images returns.
Image(loc) == [kind |-> "image", h |-> NoHandle, err |-> <<>>, loc |-> loc]

\* Mutant: a stored preference wins over the location_id argument.
ResolvePreferred_PrefFirst(location_id, file, st) ==
    LET pref == get_preferred_location_id(file)
    IN  IF Truthy(pref)
        THEN Resolved(pref, Logged(st, PrefsRead(file)))
        ELSE Resolved(location_id, Logged(st, PrefsRead(file)))

\* location_id, else the preferred location; there is no zip code to fall back on.
ResolvePreferred(location_id, file, st) ==
    IF Truthy(location_id)
    THEN Resolved(location_id, st)
    ELSE Resolved(get_preferred_location_id(file), Logged(st, PrefsRead(file)))

\* What client.product.get_product(...) can answer to get_product_details.
ProductAnswers == {"raise", "empty", "data"}
\* ... and what get_product_images can make of it: no "images", none of the
\* perspective asked for (or its download failed), or the image.
ImageAnswers == {"raise", "empty", "noimages", "noperspective", "data"}

\* The application client is fetched (outside the try), then the product.
GetProduct(loc, st) ==
    UNION { IF o.ret.kind = "raise"
            THEN {Out(o.slot, o.disk, o.hid, o.tid, After(st, o).log, Raise(o.ret.err))}
            ELSE { Out(o.slot, o.disk, o.hid, o.tid,
                       Append(After(st, o).log, Ev("get_product", 0, a # "raise", loc)),
                       CASE a = "raise" -> DictFail(UpstreamErr)
                         [] a = "empty" -> DictFail(NotFoundMsg)
                         [] OTHER       -> DictOk(loc))
                   : a \in ProductAnswers }
            : o \in get_client_credentials_client(st.slot, st.disk, st.hid, st.tid) }

GetProductImage(loc, st) ==
    UNION { IF o.ret.kind = "raise"
            THEN {Out(o.slot, o.disk, o.hid, o.tid, After(st, o).log, Raise(o.ret.err))}
            ELSE { Out(o.slot, o.disk, o.hid, o.tid,
                       Append(After(st, o).log, Ev("get_product", 0, a # "raise", loc)),
                       CASE a = "raise"         -> DictFail(UpstreamErr)
                         [] a = "empty"         -> DictFail(NotFoundMsg)
                         [] a = "noimages"      -> DictFail(NoImagesMsg)
                         [] a = "noperspective" -> DictFail(NoPerspectiveMsg)
                         [] OTHER               -> Image(loc))
                   : a \in ImageAnswers }
            : o \in get_client_credentials_client(st.slot, st.disk, st.hid, st.tid) }

SearchById(loc, st) ==
    UNION { IF o.ret.kind = "raise"
            THEN {Out(o.slot, o.disk, o.hid, o.tid, After(st, o).log, Raise(o.ret.err))}
            ELSE { Out(o.slot, o.disk, o.hid, o.tid,
                       Append(After(st, o).log, Ev("search_products", 0, a # "raise", loc)),
                       CASE a = "raise" -> DictFail(UpstreamErr)
                         [] a = "empty" -> DictFail(NoProductsWithIdMsg)
                         [] OTHER       -> DictOk(loc))
                   : a \in CatalogAnswers }
            : o \in get_client_credentials_client(st.slot, st.disk, st.hid, st.tid) }

\* The result of a tool that found no location.
NoPreferred(st) == {Out(st.slot, st.disk, st.hid, st.tid, st.log, DictFail(NoPreferredMsg))}

\* Mutant: the application client is fetched before the location is resolved.
get_product_details_SessionFirst(location_id, file, st) ==
    UNION { IF o.ret.kind = "raise"
            THEN {Out(o.slot, o.disk, o.hid, o.tid, After(st, o).log, Raise(o.ret.err))}
            ELSE LET r == ResolvePreferred(location_id, file, After(st, o))
                 IN  IF ~Truthy(r.loc)
                     THEN NoPreferred(r.st)
                     ELSE { Out(r.st.slot, r.st.disk, r.st.hid, r.st.tid,
                                Append(r.st.log, Ev("get_product", 0, a # "raise", r.loc)),
                                CASE a = "raise" -> DictFail(UpstreamErr)
                                  [] a = "empty" -> DictFail(NotFoundMsg)
                                  [] OTHER       -> DictOk(r.loc))
                            : a \in ProductAnswers }
            : o \in get_client_credentials_client(st.slot, st.disk, st.hid, st.tid) }

get_product_details(location_id, file, st) ==
    LET r == ResolvePreferred(location_id, file, st)
    IN  IF ~Truthy(r.loc) THEN NoPreferred(r.st) ELSE GetProduct(r.loc, r.st)

get_product_images(location_id, file, st) ==
    LET r == ResolvePreferred(location_id, file, st)
    IN  IF ~Truthy(r.loc) THEN NoPreferred(r.st) ELSE GetProductImage(r.loc, r.st)

search_products_by_id(location_id, file, st) ==
    LET r == ResolvePreferred(location_id, file, st)
    IN  IF ~Truthy(r.loc) THEN NoPreferred(r.st) ELSE SearchById(r.loc, r.st)

-----------------------------------------------------------------------------
\* The items on sale: pricing as search_products formats it, and the ranking
\* of find_items_on_sale.  Prices are in cents.

\* Number of products the upstream catalog answers a search with.
MaxItems == 3

\* A JSON value under a key of the upstream "price" object: a number, null, or
\* no such key.
Num(v) == [k |-> "num", v |-> v]
Null == [k |-> "null", v |-> 0]
Missing == [k |-> "missing", v |-> 0]

\* An upstream product whose first item has a "price", and one without.
Product(d, regular, promo) ==
    [description |-> d, price |-> TRUE, regular |-> regular, promo |-> promo]
Unpriced(d) == [description |-> d, price |-> FALSE, regular |-> Missing, promo |-> Missing]

\* The products the catalog may answer with.
Shelf ==
    { Product("apples", Num(500), Num(400)),
      Product("bread", Num(300), Null),
      Product("cocoa", Num(200), Num(200)),
      Product("dates", Num(400), Num(300)),
      Product("eggs", Num(500), Num(400)),
      Product("figs", Num(500), Num(-100)),
      Product("gum", Num(0), Num(-100)),
      Product("ham", Missing, Num(200)),
      Product("ice", Null, Num(200)),
      Product("jam", Num(300), Num(0)),
      Product("kale", Num(-200), Num(-300)),
      Unpriced("lime") }
Catalogs == UNION { [1..n -> Shelf] : n \in 0..MaxItems }

\* The order of str on the descriptions.
Alphabet ==
    <<"apples", "bread", "cocoa", "dates", "eggs", "figs", "gum", "ham", "ice", "jam",
      "kale", "lime">>
StrIndex(d) == CHOOSE i \in DOMAIN Alphabet : Alphabet[i] = d

\* price.get(key): None for a null and for an absent key.
Get(v) == IF v.k = "num" THEN v ELSE Null

\* price.get("promo") < price.get("regular", float('inf')) raises TypeError
\* when "regular" is there and null.
OnSaleRaises(p) == p.price /\ Get(p.promo) # Null /\ p.regular.k = "null"

\* "on_sale": promo is not None and promo < regular, an absent regular being inf.
on_sale(p) ==
    /\ Get(p.promo) # Null
    /\ (p.regular.k = "missing" \/ Get(p.promo).v < p.regular.v)

\* formatted_product, with its "pricing" when the item has a "price".
FormatProduct(p) ==
    [description   |-> p.description,
     pricing       |-> p.price,
     regular_price |-> Get(p.regular),
     sale_price    |-> Get(p.promo),
     on_sale       |-> p.price /\ on_sale(p)]

\* The "data" of the search_products result: an exception while formatting
\* makes the whole result {"success": False, "data": []}.
SearchData(products) ==
    IF \E i \in DOMAIN products : OnSaleRaises(products[i])
    THEN <<>>
    ELSE [i \in DOMAIN products |-> FormatProduct(products[i])]

\* value or 0
OrZero(v) == IF v.k = "num" THEN v.v ELSE 0

\* pricing and on_sale, regular > 0 and sale < regular
Qualifies(f) ==
    /\ f.pricing
    /\ f.on_sale
    /\ OrZero(f.regular_price) > 0
    /\ OrZero(f.sale_price) < OrZero(f.regular_price)

\* savings / regular * 100, kept as a fraction.
Pct(savings, regular) == [num |-> savings * 100, den |-> regular]

\* The entry appended to sale_items.
SaleItem(f) ==
    LET regular == OrZero(f.regular_price)
        sale    == OrZero(f.sale_price)
    IN  [description   |-> f.description,
         regular_price |-> regular,
         sale_price    |-> sale,
         savings       |-> regular - sale,
         discount_pct  |-> Pct(regular - sale, regular)]

SaleItems(data) ==
    LET q == SelectSeq(data, Qualifies)
    IN  [i \in DOMAIN q |-> SaleItem(q[i])]

\* Mutant: an entry goes before the entries of equal savings.
Insert_BeforeEqual(s, x) ==
    LET k == Cardinality({i \in DOMAIN s : s[i].savings > x.savings})
    IN  SubSeq(s, 1, k) \o <<x>> \o SubSeq(s, k + 1, Len(s))

\* x put into s, which is in descending order of savings, after the entries
\* whose savings are not less.
Insert(s, x) ==
    LET k == Cardinality({i \in DOMAIN s : s[i].savings >= x.savings})
    IN  SubSeq(s, 1, k) \o <<x>> \o SubSeq(s, k + 1, Len(s))

\* sale_items.sort(key=savings, reverse=True): list.sort is stable, also when reversed.
RECURSIVE SortBySavings(_)
SortBySavings(s) ==
    IF s = <<>>
    THEN <<>>
    ELSE Insert(SortBySavings(SubSeq(s, 1, Len(s) - 1)), s[Len(s)])

\* The limit arguments a prompt may carry (None: no "limit" given).
LimitArgs == {PyNone, "0", "1", "2", "10", "60", "ten"}
\* int(limit_str), for the strings it does not raise ValueError on.
IntOf == ("0" :> 0) @@ ("1" :> 1) @@ ("2" :> 2) @@ ("10" :> 10) @@ ("20" :> 20) @@ ("60" :> 60)

MinLimit == 1
MaxLimit == 50
DefaultLimit == 20
DefaultLimitStr == "20"

\* Mutant: the limit is used as it was parsed.
LimitOf_Unclamped(arg) ==
    LET limit_str == IF arg = PyNone THEN DefaultLimitStr ELSE arg
    IN  IF limit_str \in DOMAIN IntOf THEN IntOf[limit_str] ELSE DefaultLimit

\* The limit parsed and brought into 1..50; 20 when it does not parse.
LimitOf(arg) ==
    LET limit_str == IF arg = PyNone THEN DefaultLimitStr ELSE arg
    IN  IF limit_str \in DOMAIN IntOf
        THEN IF IntOf[limit_str] < MinLimit THEN MinLimit
             ELSE IF IntOf[limit_str] > MaxLimit THEN MaxLimit
             ELSE IntOf[limit_str]
        ELSE DefaultLimit

\* sale_items[:limit]
Truncate(s, limit) == SubSeq(s, 1, IF limit < Len(s) THEN limit ELSE Len(s))

\* One search of the catalog, filtered, sorted and cut to the limit.
find_items_on_sale(products, arg) ==
    Truncate(SortBySavings(SaleItems(SearchData(products))), LimitOf(arg))

NotRanked == [done |-> FALSE, limit |-> PyNone, items |-> <<>>]

\* The prices a product may carry under "regular" and under "promo".
PriceValues ==
    {Missing, Null, Num(-100), Num(0), Num(100), Num(200), Num(300), Num(500), Num(600)}
PricedProducts == { Product("apples", r, p) : r, p \in PriceValues }

\* bool(value): None and 0 are false.
TruthyPrice(v) == v.k = "num" /\ v.v # 0

\* Evaluating result["pricing"] raises TypeError: promo compared with, or
\* subtracted from, a regular price that is null.
PricingRaises(p) == OnSaleRaises(p) \/ (TruthyPrice(p.promo) /\ p.regular.k = "null")

\* price.get("regular", 0) - price.get("promo", price.get("regular", 0))
\* if price.get("promo") else 0
savings(p) ==
    IF TruthyPrice(p.promo)
    THEN (IF p.regular.k = "missing" THEN 0 ELSE p.regular.v) - p.promo.v
    ELSE 0

\* result["pricing"] of get_product_details, or the error result of its except block.
DetailsPricing(p) ==
    IF PricingRaises(p)
    THEN [done |-> TRUE, success |-> FALSE, on_sale |-> FALSE, savings |-> 0]
    ELSE [done |-> TRUE, success |-> TRUE, on_sale |-> on_sale(p), savings |-> savings(p)]

NotPriced == [done |-> FALSE, success |-> FALSE, on_sale |-> FALSE, savings |-> 0]

-----------------------------------------------------------------------------
\* Operations

\* held: the id of the client in the slot the operation works on, before it ran (0: None).
Call(name, held) == [name |-> name, held |-> held, location_id |-> PyNone, zip_code |-> PyNone]

\* The preference file the process may find at start.
InitPrefFiles == {AbsentFile, CorruptFile, PrefFileOf("json", PyNone, "dark")}

LocationArgs == {PyNone, ""} \cup LocIds
ZipArgs == {PyNone, "", "45202"}
PreferenceArgs == {PyNone, ""} \cup LocIds

Init ==
    /\ appSlot = NoHandle
    /\ userSlot = NoHandle
    /\ appDisk = NoToken
    /\ userDisk = NoToken
    /\ prefFile \in InitPrefFiles
    /\ nextId = 0
    /\ nextTok = 0
    /\ op = Call("init", 0)
    /\ log = <<>>
    /\ ret = NoRet
    /\ catalog = <<>>
    /\ ranked = NotRanked
    /\ pricing = NotPriced

GetApplicationSession ==
    \E o \in get_client_credentials_client(appSlot, appDisk, nextId, nextTok) :
        /\ o.hid <= MaxHandles
        /\ o.tid <= MaxTokens
        /\ appSlot' = o.slot
        /\ appDisk' = o.disk
        /\ nextId' = o.hid
        /\ nextTok' = o.tid
        /\ op' = Call("get_client_credentials_client", appSlot.id)
        /\ log' = o.log
        /\ ret' = o.ret
        /\ UNCHANGED <<catalog, ranked, pricing, userSlot, userDisk, prefFile>>

GetUserSession ==
    \E o \in get_authenticated_client(userSlot, userDisk, nextId, nextTok) :
        /\ o.hid <= MaxHandles
        /\ o.tid <= MaxTokens
        /\ userSlot' = o.slot
        /\ userDisk' = o.disk
        /\ nextId' = o.hid
        /\ nextTok' = o.tid
        /\ op' = Call("get_authenticated_client", userSlot.id)
        /\ log' = o.log
        /\ ret' = o.ret
        /\ UNCHANGED <<catalog, ranked, pricing, appSlot, appDisk, prefFile>>

\* Mutant: the assignment misses the global declaration and the slot keeps its client.
invalidate_authenticated_client_NoGlobal ==
    /\ op' = Call("invalidate_authenticated_client", userSlot.id)
    /\ log' = <<>>
    /\ ret' = NoRet
    /\ UNCHANGED <<catalog, ranked, pricing, appSlot, userSlot, appDisk, userDisk, prefFile, nextId, nextTok>>

invalidate_authenticated_client ==
    /\ userSlot' = NoHandle
    /\ op' = Call("invalidate_authenticated_client", userSlot.id)
    /\ log' = <<>>
    /\ ret' = NoRet
    /\ UNCHANGED <<catalog, ranked, pricing, appSlot, appDisk, userDisk, prefFile, nextId, nextTok>>

\* Mutant: both slots are cleared.
invalidate_client_credentials_client_Both ==
    /\ appSlot' = NoHandle
    /\ userSlot' = NoHandle
    /\ op' = Call("invalidate_client_credentials_client", appSlot.id)
    /\ log' = <<>>
    /\ ret' = NoRet
    /\ UNCHANGED <<catalog, ranked, pricing, appDisk, userDisk, prefFile, nextId, nextTok>>

invalidate_client_credentials_client ==
    /\ appSlot' = NoHandle
    /\ op' = Call("invalidate_client_credentials_client", appSlot.id)
    /\ log' = <<>>
    /\ ret' = NoRet
    /\ UNCHANGED <<catalog, ranked, pricing, userSlot, appDisk, userDisk, prefFile, nextId, nextTok>>

\* The external consent flow stores a user token record, with or without a
\* refresh token, in .kroger_token_user.json.
ConsentFlow ==
    \E rt \in BOOLEAN :
        /\ nextTok < MaxTokens
        /\ userDisk' = [n |-> nextTok + 1, rt |-> rt]
        /\ nextTok' = nextTok + 1
        /\ op' = Call("consent_flow", userSlot.id)
        /\ log' = <<>>
        /\ ret' = NoRet
        /\ UNCHANGED <<catalog, ranked, pricing, appSlot, userSlot, appDisk, prefFile, nextId>>

SetPreferredLocation ==
    \E v \in PreferenceArgs :
        \E sv \in set_preferred_location_id(prefFile, v) :
            /\ prefFile' = sv.file
            /\ op' = [Call("set_preferred_location_id", 0) EXCEPT !.location_id = v]
            /\ log' = sv.log
            /\ ret' = NoRet
            /\ UNCHANGED <<catalog, ranked, pricing, appSlot, userSlot, appDisk, userDisk, nextId, nextTok>>

\* Mutant: a location found by zip code is saved as the preferred location.
SearchProducts_Persist ==
    \E location_id \in LocationArgs, zip_code \in ZipArgs :
        \E o \in search_products(location_id, zip_code, prefFile,
                                 Thread(appSlot, appDisk, nextId, nextTok, <<>>)) :
            /\ o.hid <= MaxHandles
            /\ o.tid <= MaxTokens
            /\ appSlot' = o.slot
            /\ appDisk' = o.disk
            /\ nextId' = o.hid
            /\ nextTok' = o.tid
            /\ op' = [name |-> "search_products", held |-> appSlot.id,
                      location_id |-> location_id, zip_code |-> zip_code]
            /\ log' = o.log
            /\ ret' = o.ret
            /\ prefFile' \in (IF o.ret.kind = "dict_ok" /\ Count(o.log, "search_locations") = 1
                              THEN {sv.file : sv \in set_preferred_location_id(prefFile, o.ret.loc)}
                              ELSE {prefFile})
            /\ UNCHANGED <<catalog, ranked, pricing, userSlot, userDisk>>

SearchProducts ==
    \E location_id \in LocationArgs, zip_code \in ZipArgs :
        \E o \in search_products(location_id, zip_code, prefFile,
                                 Thread(appSlot, appDisk, nextId, nextTok, <<>>)) :
            /\ o.hid <= MaxHandles
            /\ o.tid <= MaxTokens
            /\ appSlot' = o.slot
            /\ appDisk' = o.disk
            /\ nextId' = o.hid
            /\ nextTok' = o.tid
            /\ op' = [name |-> "search_products", held |-> appSlot.id,
                      location_id |-> location_id, zip_code |-> zip_code]
            /\ log' = o.log
            /\ ret' = o.ret
            /\ UNCHANGED <<catalog, ranked, pricing, userSlot, userDisk, prefFile>>

\* The session manager and the preference store, as their callers drive them.
Next ==
    \/ GetApplicationSession
    \/ GetUserSession
    \/ invalidate_authenticated_client
    \/ invalidate_client_credentials_client
    \/ ConsentFlow
    \/ SetPreferredLocation

Spec == Init /\ [][Next]_vars

\* The catalog tool with the application session and the preference store it uses.
NextCatalog ==
    \/ SearchProducts
    \/ GetApplicationSession
    \/ invalidate_client_credentials_client
    \/ SetPreferredLocation

SpecCatalog == Init /\ [][NextCatalog]_vars

\* The four catalog tools with the application session and the preference store.
GetProductDetails ==
    \E location_id \in LocationArgs :
        \E o \in get_product_details(location_id, prefFile, Thread(appSlot, appDisk, nextId, nextTok, <<>>)) :
            /\ o.hid <= MaxHandles
            /\ o.tid <= MaxTokens
            /\ appSlot' = o.slot
            /\ appDisk' = o.disk
            /\ nextId' = o.hid
            /\ nextTok' = o.tid
            /\ op' = [name |-> "get_product_details", held |-> appSlot.id,
                      location_id |-> location_id, zip_code |-> PyNone]
            /\ log' = o.log
            /\ ret' = o.ret
            /\ UNCHANGED <<catalog, ranked, pricing, userSlot, userDisk, prefFile>>

GetProductImages ==
    \E location_id \in LocationArgs :
        \E o \in get_product_images(location_id, prefFile, Thread(appSlot, appDisk, nextId, nextTok, <<>>)) :
            /\ o.hid <= MaxHandles
            /\ o.tid <= MaxTokens
            /\ appSlot' = o.slot
            /\ appDisk' = o.disk
            /\ nextId' = o.hid
            /\ nextTok' = o.tid
            /\ op' = [name |-> "get_product_images", held |-> appSlot.id,
                      location_id |-> location_id, zip_code |-> PyNone]
            /\ log' = o.log
            /\ ret' = o.ret
            /\ UNCHANGED <<catalog, ranked, pricing, userSlot, userDisk, prefFile>>

SearchProductsById ==
    \E location_id \in LocationArgs :
        \E o \in search_products_by_id(location_id, prefFile, Thread(appSlot, appDisk, nextId, nextTok, <<>>)) :
            /\ o.hid <= MaxHandles
            /\ o.tid <= MaxTokens
            /\ appSlot' = o.slot
            /\ appDisk' = o.disk
            /\ nextId' = o.hid
            /\ nextTok' = o.tid
            /\ op' = [name |-> "search_products_by_id", held |-> appSlot.id,
                      location_id |-> location_id, zip_code |-> PyNone]
            /\ log' = o.log
            /\ ret' = o.ret
            /\ UNCHANGED <<catalog, ranked, pricing, userSlot, userDisk, prefFile>>

NextTools ==
    \/ SearchProducts
    \/ GetProductDetails
    \/ GetProductImages
    \/ SearchProductsById
    \/ invalidate_client_credentials_client
    \/ SetPreferredLocation

SpecTools == Init /\ [][NextTools]_vars

\* The ranking applied to every answer of the catalog and every limit.
InitRank ==
    /\ appSlot = NoHandle
    /\ userSlot = NoHandle
    /\ appDisk = NoToken
    /\ userDisk = NoToken
    /\ prefFile = AbsentFile
    /\ nextId = 0
    /\ nextTok = 0
    /\ op = Call("init", 0)
    /\ log = <<>>
    /\ ret = NoRet
    /\ catalog \in Catalogs
    /\ ranked = NotRanked
    /\ pricing = NotPriced

FindItemsOnSale ==
    \E arg \in LimitArgs :
        /\ ranked' = [done |-> TRUE, limit |-> arg, items |-> find_items_on_sale(catalog, arg)]
        /\ op' = Call("find_items_on_sale", 0)
        /\ log' = <<>>
        /\ ret' = NoRet
        /\ UNCHANGED <<catalog, pricing, appSlot, userSlot, appDisk, userDisk, prefFile, nextId,
                       nextTok>>

NextRank == FindItemsOnSale

SpecRank == InitRank /\ [][NextRank]_vars

\* The pricing of get_product_details applied to every pair of prices.
InitPricing ==
    /\ appSlot = NoHandle
    /\ userSlot = NoHandle
    /\ appDisk = NoToken
    /\ userDisk = NoToken
    /\ prefFile = AbsentFile
    /\ nextId = 0
    /\ nextTok = 0
    /\ op = Call("init", 0)
    /\ log = <<>>
    /\ ret = NoRet
    /\ catalog \in { <<p>> : p \in PricedProducts }
    /\ ranked = NotRanked
    /\ pricing = NotPriced

ProductPricing ==
    /\ pricing' = DetailsPricing(catalog[1])
    /\ op' = Call("get_product_details", 0)
    /\ log' = <<>>
    /\ ret' = NoRet
    /\ UNCHANGED <<catalog, ranked, appSlot, userSlot, appDisk, userDisk, prefFile, nextId,
                   nextTok>>

NextPricing == ProductPricing

SpecPricing == InitPricing /\ [][NextPricing]_vars

-----------------------------------------------------------------------------
\* Properties of the session manager

SessionGets == {"get_client_credentials_client", "get_authenticated_client"}
Acquisitions == {"load", "exchange", "refresh"}

\* The returned client's current token passed a probe in this call, after the
\* call's last disk load, credential exchange or refresh.
ProbedAfterAcquisition ==
    \E i \in DOMAIN log :
        /\ log[i] = Probe(ret.h, TRUE)
        /\ \A j \in DOMAIN log : j > i => log[j].ev \notin Acquisitions

AppColdStart ==
    /\ op'.name = "get_client_credentials_client"
    /\ appSlot = NoHandle
    /\ appDisk = NoToken

C3_ProbeAfterRefresh ==
    op.name = "get_authenticated_client" =>
        \A i \in DOMAIN log :
            (log[i].ev = "refresh" /\ log[i].ok) =>
                /\ i > 1 /\ log[i - 1].ev = "probe" /\ ~log[i - 1].ok
                /\ i < Len(log)
                /\ log[i + 1].ev = "probe"
                /\ log[i + 1].n = log[i].n
                /\ (ret.kind = "session") = log[i + 1].ok
                /\ ret.kind = "session" => ret.h.tok.n = log[i].n

\* C3 witness: loaded token failed its probe, refresh succeeded, and the probe
\* of the refreshed token failed: no session is returned.
C3_Witness ==
    /\ op.name = "get_authenticated_client"
    /\ \E i \in DOMAIN log : log[i].ev = "refresh" /\ log[i].ok
    /\ log[Len(log)].ev = "probe"
    /\ ret.kind = "raise"

\* The cases of C4, as the call meets them: it looks for the token record and
\* finds none; the record found has no refresh token and its token failed the
\* probe; the refresh call failed.
NoUserRecord == \E i \in DOMAIN log' : log'[i] = Ev("load", 0, FALSE, "user")
DeadTokenNoRefresh ==
    /\ userDisk # NoToken
    /\ ~userDisk.rt
    /\ \E i \in DOMAIN log' : log'[i] = Ev("load", userDisk.n, TRUE, "user")
    /\ log'[Len(log')] = Ev("probe", userDisk.n, FALSE, "")
RefreshFailed == \E i \in DOMAIN log' : log'[i].ev = "refresh" /\ ~log'[i].ok

\* C4: get_authenticated_client raises the authentication-required exception,
\* its message starting "Authentication required" and not wrapped, when it
\* finds no token record, when the record's token fails the probe and has no
\* refresh token, and when the refresh call fails; no session is returned.
C4_AuthenticationRequired ==
    [][(op'.name = "get_authenticated_client"
            /\ (NoUserRecord \/ DeadTokenNoRefresh \/ RefreshFailed)) =>
          /\ ret'.kind = "raise"
          /\ ret'.err = AuthRequiredMsg
          /\ ret'.err[1] = "Authentication required"]_vars

\* C4 witness: a record without refresh token, its token failed the probe.
C4_Witness ==
    /\ op.name = "get_authenticated_client"
    /\ ret = Raise(AuthRequiredMsg)
    /\ Count(log, "refresh") = 0
    /\ \E i \in DOMAIN log : log[i].ev = "load" /\ log[i].ok
    /\ log[Len(log)].ev = "probe"

\* C5: every failure of get_client_credentials_client is the generic
\* "Failed to get client credentials: ..." exception, never the
\* authentication-required one; it never refreshes or waits for consent; and a
\* call that found no live token (held or loaded) has made the credential
\* exchange, unless the environment validation stopped it.
C5_GenericAcquisitionError ==
    op.name = "get_client_credentials_client" =>
        /\ ret.kind \in {"session", "raise"}
        /\ ret.kind = "raise" =>
              (/\ ret.err[1] = "Failed to get client credentials: "
               /\ ~Contains(ret.err, "Authentication required"))
        /\ Count(log, "refresh") = 0
        /\ \A i \in DOMAIN log :
              (\/ log[i] = Ev("load", 0, FALSE, "app")
               \/ (log[i].ev = "probe" /\ ~log[i].ok /\ i > 1 /\ log[i - 1].ev = "load")) =>
                  (i < Len(log) /\ log[i + 1].ev = "exchange")
        /\ ((\A i \in DOMAIN log : ~(log[i].ev = "probe" /\ log[i].ok))
                /\ ret # Raise(AppExcept(EnvErr))) => Count(log, "exchange") = 1

\* C5 witness: the loaded token failed its probe and the exchange failed too.
C5_Witness ==
    /\ op.name = "get_client_credentials_client"
    /\ ret = Raise(AppExcept(ExchangeErr))
    /\ \E i \in DOMAIN log : log[i].ev = "load" /\ log[i].ok

\* A session returned by a call that started with an empty slot is a client
\* constructed in that call, never one that existed before.
NewClient == ret'.kind = "session" => ret'.h.id > nextId
NoHeldProbe == Len(log') > 0 => log'[1].ev \in {"new", "load"}

\* C6: either invalidation leaves its slot None whatever it held, and a get
\* call that finds the slot None probes no held client and returns, if
\* anything, a client constructed in that call.
C6_InvalidateEmpties ==
    [][/\ op'.name = "invalidate_authenticated_client" => userSlot' = NoHandle
       /\ op'.name = "invalidate_client_credentials_client" => appSlot' = NoHandle
       /\ (op'.name = "get_authenticated_client" /\ userSlot = NoHandle) =>
              (NewClient /\ NoHeldProbe)
       /\ (op'.name = "get_client_credentials_client" /\ appSlot = NoHandle) =>
              (NewClient /\ NoHeldProbe)]_vars

\* C6 witness: the user slot held a client and the invalidation emptied it.
C6_Witness ==
    /\ op.name = "invalidate_authenticated_client"
    /\ op.held # 0
    /\ userSlot = NoHandle

\* C7: a session that carries the token loaded from disk in this call is
\* returned only after a probe of that token succeeded later in the call.
C7_LoadedTokenProbed ==
    (op.name \in SessionGets /\ ret.kind = "session") =>
        \A i \in DOMAIN log :
            (log[i].ev = "load" /\ log[i].ok /\ log[i].n = ret.h.tok.n) =>
                \E j \in DOMAIN log : j > i /\ log[j] = Ev("probe", log[i].n, TRUE, "")

\* C7 witness: the user record was loaded, probed live and returned.
C7_Witness ==
    /\ op.name = "get_authenticated_client"
    /\ ret.kind = "session"
    /\ \E i \in DOMAIN log : log[i].ev = "load" /\ log[i].ok /\ log[i].n = ret.h.tok.n

-----------------------------------------------------------------------------
\* Properties of the location resolution in search_products

\* Every catalog search the call made, and its successful result, are for loc.
UsesOnly(loc) ==
    /\ \A i \in DOMAIN log' : log'[i].ev = "search_products" => log'[i].s = loc
    /\ ret'.kind = "dict_ok" => ret'.loc = loc

\* The explicit id wins; else a set preference wins; no lookup in either case.
PrecedenceOfIdAndPreference ==
    LET pref == get_preferred_location_id(prefFile)
    IN  /\ Truthy(op'.location_id) =>
              (Count(log', "search_locations") = 0 /\ UsesOnly(op'.location_id))
        /\ (~Truthy(op'.location_id) /\ Truthy(pref)) =>
              (Count(log', "search_locations") = 0 /\ UsesOnly(pref))
Neither == ~Truthy(op'.location_id) /\ ~Truthy(get_preferred_location_id(prefFile))

\* C8 as stated: for every location_id, preference and zip code, the explicit
\* id wins, else the preference wins, and with neither a lookup by zip code is
\* made exactly once.
C8_LookupOnceWhenNeither ==
    [][op'.name = "search_products" =>
          /\ PrecedenceOfIdAndPreference
          /\ Neither => Count(log', "search_locations") = 1]_vars

\* C8 amended: the explicit id wins, else the preference wins, no lookup being
\* made in either case; with neither and a zip code given, the lookup is made
\* once, or not at all when fetching the application client raised; with
\* neither and no zip code no lookup is made and the call fails for want of a
\* location.
C8_Precedence ==
    [][op'.name = "search_products" =>
          /\ PrecedenceOfIdAndPreference
          /\ (Neither /\ Truthy(op'.zip_code)) =>
                \/ Count(log', "search_locations") = 1
                \/ /\ Count(log', "search_locations") = 0
                   /\ ret'.kind = "raise"
                   /\ ret'.err[1] = "Failed to get client credentials: "
          /\ (Neither /\ ~Truthy(op'.zip_code)) =>
                (Count(log', "search_locations") = 0 /\ ret' = DictFail(NoLocationMsg))]_vars

\* C8 witness: no location_id, no preference, a zip code: one lookup was made.
C8_Witness ==
    /\ op.name = "search_products"
    /\ ~Truthy(op.location_id)
    /\ ~Truthy(get_preferred_location_id(prefFile))
    /\ Truthy(op.zip_code)
    /\ Count(log, "search_locations") = 1

\* C9: with a location_id given, the call makes no location lookup, does not
\* read the preference file, and searches the catalog at that very location.
C9_ExplicitIdTrusted ==
    (op.name = "search_products" /\ Truthy(op.location_id)) =>
        /\ Count(log, "search_locations") = 0
        /\ Count(log, "prefs_read") = 0
        /\ \A i \in DOMAIN log : log[i].ev = "search_products" => log[i].s = op.location_id
        /\ ret.kind = "dict_ok" => ret.loc = op.location_id

\* C9 witness: a location_id given while another preference is stored and a
\* zip code is passed; the search succeeded at the given location.
C9_Witness ==
    /\ op.name = "search_products"
    /\ Truthy(op.location_id)
    /\ Truthy(op.zip_code)
    /\ Truthy(get_preferred_location_id(prefFile))
    /\ get_preferred_location_id(prefFile) # op.location_id
    /\ ret = DictOk(op.location_id)

\* C10: search_products leaves the preference file as it was, whatever the
\* resolution did; the file changes only in set_preferred_location_id.
C10_LookupNotPersisted ==
    [][/\ op'.name = "search_products" => prefFile' = prefFile
       /\ prefFile' # prefFile => op'.name = "set_preferred_location_id"]_vars

\* C10 witness: zip code 45202 resolved to 01400441, the search succeeded
\* there, and the preference file still holds no preferred location.
C10_Witness ==
    /\ op.name = "search_products"
    /\ op.zip_code = "45202"
    /\ Count(log, "search_locations") = 1
    /\ ret = DictOk("01400441")
    /\ get_preferred_location_id(prefFile) = PyNone

-----------------------------------------------------------------------------
\* Properties of the failures of search_products and of the preference file

\* The call was a search that ended for want of a location.
ResolutionFailed ==
    /\ op.name = "search_products"
    /\ ret.kind = "dict_fail"
    /\ Count(log, "search_products") = 0

\* ... with a zip code given and one lookup made, which found no store.
LookupFoundNothing ==
    /\ ResolutionFailed
    /\ Truthy(op.zip_code)
    /\ \E i \in DOMAIN log : log[i].ev = "search_locations" /\ log[i].ok

\* The errors of a search with no location_id, no preference and no zip code.
NoZipErrors ==
    { o.ret.err : o \in search_products(PyNone, PyNone, AbsentFile,
                                        Thread(NoHandle, NoToken, 0, 0, <<>>)) }

FailedCalls ==
    { i \in DOMAIN log :
        /\ log[i].ev \in {"exchange", "refresh", "search_locations", "search_products",
                           "prefs_read", "save"}
        /\ ~log[i].ok }
Failed(e) == \E i \in FailedCalls : log[i].ev = e

\* The outcome tells the caller of a failure: an exception, or the error dict
\* of the failed catalog search.
ReportsFailure == ret.kind = "raise" \/ ret = DictFail(UpstreamErr)

Saved ==
    /\ op.name = "set_preferred_location_id"
    /\ \E i \in DOMAIN log : log[i].ev = "save" /\ log[i].ok

\* C18: once set_preferred_location_id(v) has written the file,
\* get_preferred_location_id() returns v, for a string v and for None alike;
\* and it returns None when there is no preference file.
C18_RoundTrip ==
    /\ Saved => get_preferred_location_id(prefFile) = op.location_id
    /\ prefFile = AbsentFile => get_preferred_location_id(prefFile) = PyNone

\* C18 witness: "01400441" was set and written, and is what is read back.
C18_Witness ==
    /\ Saved
    /\ op.location_id = "01400441"
    /\ get_preferred_location_id(prefFile) = "01400441"

-----------------------------------------------------------------------------
\* Properties of calls that follow one another on the same slot

\* The slot the last session call worked on.
SlotOf(name) == IF name = "get_client_credentials_client" THEN appSlot ELSE userSlot

\* What the call itself met that makes it fail: the environment validation,
\* the credential exchange, or a user token record that is missing, dead
\* without refresh token, not refreshed, or dead after the refresh.
OwnCause ==
    \/ ret.err \in {AppExcept(EnvErr), UserExcept(EnvErr)}
    \/ ret.err = AppExcept(ExchangeErr) /\ Failed("exchange")
    \/ /\ ret.err = AuthRequiredMsg
       /\ \/ \E i \in DOMAIN log : log[i] = Ev("load", 0, FALSE, "user")
          \/ Failed("refresh")
          \/ (Len(log) > 0 /\ log[Len(log)].ev = "probe" /\ ~log[Len(log)].ok)

\* C20: the session functions run without suspension point, so calls on a
\* slot follow one another in any order.  Whatever the calls before it left
\* in the slot, a session call that succeeds returns a client holding a
\* token, which is the one in the slot, and a call that fails met a failure
\* of its own; invalidation leaves the slot empty.
C20_AtomicSlot ==
    /\ op.name \in SessionGets =>
          /\ ret.kind \in {"session", "raise"}
          /\ ret.kind = "session" =>
                (ret.h # NoHandle /\ ret.h.tok # NoToken /\ ret.h = SlotOf(op.name))
          /\ ret.kind = "raise" => OwnCause
    /\ op.name = "invalidate_client_credentials_client" => appSlot = NoHandle
    /\ op.name = "invalidate_authenticated_client" => userSlot = NoHandle

\* C20 witness: a third client of the process: the call found the slot empty
\* after earlier calls had filled and reset it, and returned a new client
\* with its token.
C20_Witness ==
    /\ op.name \in SessionGets
    /\ op.held = 0
    /\ ret.kind = "session"
    /\ ret.h.id = 3
    /\ ret.h.tok # NoToken
    /\ ret.h = SlotOf(op.name)

-----------------------------------------------------------------------------
\* Properties of the ranking of the items on sale

\* The product, read off the upstream data: it has both prices as numbers,
\* a regular price above zero and a promo price below it.
Cheaper(p) ==
    /\ p.price
    /\ p.promo.k = "num"
    /\ p.regular.k = "num"
    /\ p.regular.v > 0
    /\ p.promo.v < p.regular.v
\* The search that delivers the products fails as a whole over one of them.
BatchFails == \E i \in DOMAIN catalog : catalog[i].price /\ catalog[i].promo.k = "num"
                                           /\ catalog[i].regular.k = "null"
\* The products of the catalog that end up among the items on sale, in order.
Kept == IF BatchFails THEN <<>> ELSE SelectSeq(catalog, Cheaper)

\* The entry of the result is that of product p.
EntryOf(e, p) ==
    /\ e.description = p.description
    /\ p.regular.k = "num" /\ e.regular_price = p.regular.v
    /\ p.promo.k = "num" /\ e.sale_price = p.promo.v
\* The limit did not cut the result.
Uncut == ranked.done /\ ranked.limit = "10"

\* C13 as stated: every entry of the result has savings >= 0, a discount
\* percentage from 0 to 100, and a promo price below its regular price.
C13_EntryRanges ==
    ranked.done =>
        \A i \in DOMAIN ranked.items :
            LET e == ranked.items[i]
            IN  /\ 0 <= e.savings
                /\ 0 <= e.discount_pct.num
                /\ e.discount_pct.num <= 100 * e.discount_pct.den
                /\ e.sale_price < e.regular_price

\* C14 as stated: a product is kept if and only if its promo price is there,
\* both prices are not negative and the promo price is below the regular
\* price; a product with no or a zero regular price, no promo price, or promo
\* equal to regular is not flagged on sale; and of apples 5.00/4.00, bread
\* 3.00/none, cocoa 2.00/2.00 only apples is kept, with savings 1.00 and 20%.
C14_KeptIff ==
    Uncut =>
        /\ \A i \in DOMAIN catalog :
              LET p == catalog[i]
              IN  /\ (\E j \in DOMAIN ranked.items : EntryOf(ranked.items[j], p)) <=>
                        (/\ p.price
                         /\ p.promo.k = "num" /\ p.regular.k = "num"
                         /\ p.promo.v >= 0 /\ p.regular.v >= 0
                         /\ p.promo.v < p.regular.v)
                  /\ (\/ ~p.price
                      \/ p.regular.k # "num"
                      \/ p.regular.v = 0
                      \/ p.promo.k # "num"
                      \/ p.promo.v = p.regular.v) =>
                        \A j \in DOMAIN SearchData(catalog) :
                            SearchData(catalog)[j].description = p.description =>
                                ~SearchData(catalog)[j].on_sale
        /\ catalog = <<Product("apples", Num(500), Num(400)), Product("bread", Num(300), Null),
                       Product("cocoa", Num(200), Num(200))>> =>
              /\ Len(ranked.items) = 1
              /\ EntryOf(ranked.items[1], catalog[1])
              /\ ranked.items[1].savings = 100
              /\ ranked.items[1].discount_pct.num = 20 * ranked.items[1].discount_pct.den

\* a's discount percentage is below b's.
PctLess(a, b) == a.discount_pct.num * b.discount_pct.den < b.discount_pct.num * a.discount_pct.den
PctEqual(a, b) == a.discount_pct.num * b.discount_pct.den = b.discount_pct.num * a.discount_pct.den

\* C15 as stated: the result is in descending order of savings, entries of
\* equal savings in descending order of discount percentage, and entries equal
\* in both in ascending order of description.
C15_TieBreaks ==
    ranked.done =>
        \A i, j \in DOMAIN ranked.items :
            i < j =>
                LET a == ranked.items[i]
                    b == ranked.items[j]
                IN  /\ a.savings >= b.savings
                    /\ a.savings = b.savings => ~PctLess(a, b)
                    /\ (a.savings = b.savings /\ PctEqual(a, b)) =>
                          StrIndex(a.description) <= StrIndex(b.description)

\* The entries of s whose savings are v, in their order in s.
WithSavings(s, v) == SelectSeq(s, LAMBDA e : e.savings = v)
IsPrefix(s, t) == Len(s) <= Len(t) /\ s = SubSeq(t, 1, Len(s))

\* C15 amended: the result is in descending order of savings, and entries of
\* equal savings stand in the order in which their products came from the
\* catalog; nothing else orders them.
C15_SavingsThenInputOrder ==
    ranked.done =>
        /\ \A i, j \in DOMAIN ranked.items :
              i < j => ranked.items[i].savings >= ranked.items[j].savings
        /\ \A i \in DOMAIN ranked.items :
              LET v == ranked.items[i].savings
                  q == [k \in DOMAIN Kept |-> [description |-> Kept[k].description,
                                               savings |-> Kept[k].regular.v - Kept[k].promo.v]]
                  r == [k \in DOMAIN ranked.items |-> [description |-> ranked.items[k].description,
                                                       savings |-> ranked.items[k].savings]]
              IN  IsPrefix(WithSavings(r, v), WithSavings(q, v))

\* C15 witness: two entries of equal savings, the one of the lower discount
\* percentage and of the later description first.
C15_Witness ==
    /\ ranked.done
    /\ Len(ranked.items) >= 2
    /\ ranked.items[1].savings = ranked.items[2].savings
    /\ PctLess(ranked.items[1], ranked.items[2])
    /\ StrIndex(ranked.items[1].description) > StrIndex(ranked.items[2].description)

\* The number a limit argument stands for.
Denotes(arg, n) == arg \in DOMAIN IntOf /\ IntOf[arg] = n
Smaller(a, b) == IF a < b THEN a ELSE b

\* C17 as stated: the result has min(limit, number of qualifying products)
\* entries; none for an empty catalog and none for a limit of zero.
C17_LengthMinLimit ==
    ranked.done =>
        /\ \A n \in 0..60 : Denotes(ranked.limit, n) => Len(ranked.items) = Smaller(n, Len(Kept))
        /\ catalog = <<>> => ranked.items = <<>>
        /\ Denotes(ranked.limit, 0) => ranked.items = <<>>

\* C17 amended: the limit is brought into 1..50 first (0 counts as 1, 60 as
\* 50) and is 20 when absent or not a number; the result has min(that limit,
\* number of qualifying products) entries, none for an empty catalog.
C17_LengthMinClampedLimit ==
    ranked.done =>
        /\ Len(ranked.items) =
              Smaller(CASE ranked.limit = PyNone -> 20
                        [] ranked.limit = "ten" -> 20
                        [] Denotes(ranked.limit, 0) -> 1
                        [] Denotes(ranked.limit, 60) -> 50
                        [] OTHER -> IntOf[ranked.limit],
                      Len(Kept))
        /\ catalog = <<>> => ranked.items = <<>>

\* C17 witness: a limit of zero and two qualifying products: one entry.
C17_Witness ==
    /\ ranked.done
    /\ ranked.limit = "0"
    /\ Len(Kept) = 2
    /\ Len(ranked.items) = 1

-----------------------------------------------------------------------------
\* Properties of the slots across a session call

AppGetFailed == op'.name = "get_client_credentials_client" /\ ret'.kind = "raise"
UserGetFailed == op'.name = "get_authenticated_client" /\ ret'.kind = "raise"

\* C21 as stated: after a session call that failed, the slot of its purpose
\* holds what it held before the call.
C21_FailureKeepsSlot ==
    [][/\ AppGetFailed => appSlot' = appSlot
       /\ UserGetFailed => userSlot' = userSlot]_vars

\* C21 amended: a session call that failed leaves its slot empty or holding
\* the client the call itself constructed; a client held before the call is in
\* the slot afterwards only when its probe succeeded and the call returned it.
C21_FailureClearsOrRenews ==
    [][/\ AppGetFailed => (appSlot' = NoHandle \/ appSlot'.id > nextId)
       /\ UserGetFailed => (userSlot' = NoHandle \/ userSlot'.id > nextId)
       /\ (op'.name = "get_client_credentials_client" /\ appSlot # NoHandle /\ appSlot' = appSlot) =>
              ret' = Session(appSlot)
       /\ (op'.name = "get_authenticated_client" /\ userSlot # NoHandle /\ userSlot' = userSlot) =>
              ret' = Session(userSlot)]_vars

\* C21 witness: the call found a client in the user slot, failed, and the
\* slot is empty.
C21_Witness ==
    /\ op.name = "get_authenticated_client"
    /\ op.held # 0
    /\ ret.kind = "raise"
    /\ userSlot = NoHandle

\* C25: a session call ends after a bounded number of upstream calls:
\* get_authenticated_client makes at most one refresh and three probes and no
\* exchange, get_client_credentials_client at most one exchange and two probes
\* and no refresh.
C25_BoundedUpstreamCalls ==
    /\ op.name = "get_authenticated_client" =>
          /\ Count(log, "refresh") <= 1
          /\ Count(log, "probe") <= 3
          /\ Count(log, "exchange") = 0
    /\ op.name = "get_client_credentials_client" =>
          /\ Count(log, "exchange") <= 1
          /\ Count(log, "probe") <= 2
          /\ Count(log, "refresh") = 0

\* C25 witness: a user call that made the three probes and the one refresh.
C25_Witness ==
    /\ op.name = "get_authenticated_client"
    /\ Count(log, "probe") = 3
    /\ Count(log, "refresh") = 1

\* C26 as stated: when get_authenticated_client fails after it loaded a token
\* from the token file, the user slot is empty.
C26_FailureDropsHandle ==
    (/\ op.name = "get_authenticated_client"
     /\ ret.kind = "raise"
     /\ \E i \in DOMAIN log : log[i].ev = "load" /\ log[i].ok) =>
        userSlot = NoHandle

\* C27: a held client whose probe succeeds is returned after that one probe,
\* with no read of the token file, no exchange and no refresh, and stays in
\* the slot; and a refresh is made only by get_authenticated_client, right
\* after the failed probe of a token loaded from a record that has a refresh
\* token.
C27_LiveSessionReused ==
    [][/\ (op'.name \in SessionGets /\ Len(log') > 0 /\ log'[1].ev = "probe" /\ log'[1].ok) =>
             LET held == IF op'.name = "get_client_credentials_client" THEN appSlot ELSE userSlot
             IN  /\ held # NoHandle
                 /\ log' = <<Probe(held, TRUE)>>
                 /\ ret' = Session(held)
                 /\ appSlot' = appSlot /\ userSlot' = userSlot
       /\ \A i \in DOMAIN log' :
             log'[i].ev = "refresh" =>
                 /\ op'.name = "get_authenticated_client"
                 /\ userDisk.rt
                 /\ i > 3
                 /\ log'[i - 1] = Ev("probe", userDisk.n, FALSE, "")
                 /\ log'[i - 3] = Ev("load", userDisk.n, TRUE, "user")]_vars

\* C27 witness: the user client held was probed once and returned.
C27_Witness ==
    /\ op.name = "get_authenticated_client"
    /\ op.held # 0
    /\ Len(log) = 1
    /\ log[1].ev = "probe"
    /\ ret.kind = "session"
    /\ ret.h.id = op.held

AppOps == {"get_client_credentials_client", "invalidate_client_credentials_client"}
UserOps == {"get_authenticated_client", "invalidate_authenticated_client"}

\* C28: the operations on the application slot leave the user slot as it is,
\* those on the user slot leave the application slot as it is, and none of
\* them changes the preference file.
C28_SlotsIndependent ==
    [][/\ op'.name \in AppOps => userSlot' = userSlot
       /\ op'.name \in UserOps => appSlot' = appSlot
       /\ op'.name \in AppOps \cup UserOps => prefFile' = prefFile]_vars

\* C28 witness: the application slot was cleared while the user slot holds a client.
C28_Witness ==
    /\ op.name = "invalidate_client_credentials_client"
    /\ op.held # 0
    /\ appSlot = NoHandle
    /\ userSlot # NoHandle

-----------------------------------------------------------------------------
\* Properties of the outcomes of search_products

\* C30 as stated: search_products never raises; every failure is a returned
\* error result, and no catalog search is made when no location was resolved.
C30_NeverRaises ==
    op.name = "search_products" =>
        /\ ret.kind \in {"dict_ok", "dict_fail"}
        /\ ResolutionFailed => Count(log, "search_products") = 0

\* C30 amended: search_products returns an error result when no location was
\* resolved (no catalog search is then made), when the lookup by zip code
\* raised and when the catalog search raised; it raises "Failed to get client
\* credentials: ..." when fetching the application client fails, before the
\* lookup or before the catalog search, and at no other time.
C30_RaisesOnlyForSession ==
    op.name = "search_products" =>
        /\ ret.kind \in {"dict_ok", "dict_fail", "raise"}
        /\ ret.kind = "raise" =>
              /\ ret.err \in {AppExcept(EnvErr), AppExcept(ExchangeErr)}
              /\ Count(log, "search_products") = 0
              /\ log = <<>> \/ log[Len(log)].ev \in {"prefs_read", "probe", "exchange", "search_locations"}
              /\ ret.err = AppExcept(ExchangeErr) => log[Len(log)] = Ev("exchange", 0, FALSE, "")
        /\ Failed("exchange") => ret = Raise(AppExcept(ExchangeErr))
        /\ (ret.kind = "dict_fail" /\ Count(log, "search_products") = 0) =>
              ret = DictFail(NoLocationMsg)
        /\ Failed("search_locations") => ret.kind = "dict_fail"
        /\ Failed("search_products") => ret = DictFail(UpstreamErr)

\* C30 witness: a location_id was given and the credential exchange failed:
\* the search raised before any catalog search.
C30_Witness ==
    /\ op.name = "search_products"
    /\ Truthy(op.location_id)
    /\ ret = Raise(AppExcept(ExchangeErr))
    /\ Count(log, "search_products") = 0

-----------------------------------------------------------------------------
\* Properties of the four catalog tools

CatalogTools ==
    {"search_products", "get_product_details", "get_product_images", "search_products_by_id"}
PreferenceTools == CatalogTools \ {"search_products"}
SessionEvents == {"probe", "new", "load", "exchange"}
ResolutionEvents == {"prefs_read", "search_locations"}
CatalogCalls == {"search_products", "get_product"}

\* C22 as stated: in a catalog tool the session is obtained first, then the
\* location is resolved, then the catalog is called.
C22_SessionThenLocation ==
    op.name \in CatalogTools =>
        \A i, j \in DOMAIN log :
            /\ (log[i].ev \in SessionEvents /\ log[j].ev \in ResolutionEvents) => i < j
            /\ (log[i].ev \in ResolutionEvents /\ log[j].ev \in CatalogCalls) => i < j

\* C22 amended: a catalog tool resolves the location first: the preference
\* file, when it is read, is read before anything else, and a tool left
\* without location then ends without fetching a client, unless it is
\* search_products with a zip code; the client is fetched right before each
\* upstream call, the lookup by zip code and the catalog call, and the catalog
\* call is the last step.
C22_LocationThenSession ==
    op.name \in CatalogTools =>
        /\ \A i \in DOMAIN log :
              /\ log[i].ev = "prefs_read" => i = 1
              /\ log[i].ev \in CatalogCalls \cup {"search_locations"} =>
                    (i > 1 /\ log[i - 1].ev \in {"probe", "exchange"} /\ log[i - 1].ok)
              /\ log[i].ev \in CatalogCalls => i = Len(log)
              /\ log[i].ev = "search_locations" =>
                    (op.name = "search_products" /\ log[1].ev = "prefs_read")
        /\ (op.name \in PreferenceTools /\ ret = DictFail(NoPreferredMsg)) =>
              (Len(log) = 1 /\ log[1].ev = "prefs_read")

\* C22 witness: get_product_details read the preference file, then fetched the
\* client, then called the catalog.
C22_Witness ==
    /\ op.name = "get_product_details"
    /\ Len(log) >= 3
    /\ log[1].ev = "prefs_read"
    /\ log[2].ev \in SessionEvents
    /\ log[Len(log)].ev = "get_product"

\* The session state a tool called now would start from.
Now == Thread(appSlot, appDisk, nextId, nextTok, <<>>)
\* What the three tools without zip code resolve the arguments of the last call to.
Preferred == ResolvePreferred(op.location_id, prefFile, Now).loc
\* The location an outcome of a tool went to the catalog with, or how it ended without.
LocUsed(o) ==
    IF \E i \in DOMAIN o.log : o.log[i].ev \in CatalogCalls
    THEN o.log[Len(o.log)].s
    ELSE IF o.ret.kind = "raise" THEN "<raised>" ELSE o.ret.err[1]

\* C23 as stated: for the same location_id, preference and lookup result the
\* four tools resolve to the same location or fail alike.
C23_SameChain ==
    /\ (op.name = "search_products" /\ ret.kind = "dict_ok") => Preferred = ret.loc
    /\ (op.name = "search_products" /\ ResolutionFailed) => ~Truthy(Preferred)
    /\ (op.name \in PreferenceTools /\ ret = DictFail(NoPreferredMsg)) =>
          \A z \in ZipArgs :
              \A r \in ResolveLocation(op.location_id, z, prefFile, Now) : ~Truthy(r.loc)

\* C23 amended: the four tools agree on location_id, else the preference;
\* with neither, get_product_details, get_product_images and
\* search_products_by_id fail at once with one common error, while
\* search_products alone goes on to the lookup by zip code and, left without
\* location, fails with an error of its own.
C23_SameUpToZip ==
    /\ (op.name = "search_products" /\ ret.kind = "dict_ok") =>
          IF Truthy(op.location_id) \/ Truthy(get_preferred_location_id(prefFile))
          THEN Preferred = ret.loc
          ELSE ~Truthy(Preferred) /\ Truthy(op.zip_code) /\ Count(log, "search_locations") = 1
    /\ (op.name \in PreferenceTools /\ ret.kind \in {"dict_ok", "image"}) =>
          \A z \in ZipArgs :
              \A r \in ResolveLocation(op.location_id, z, prefFile, Now) :
                  ~r.raised /\ r.loc = ret.loc
    /\ (op.name \in PreferenceTools /\ ret = DictFail(NoPreferredMsg)) =>
          /\ \A o \in search_products(op.location_id, PyNone, prefFile, Now) :
                o.ret = DictFail(NoLocationMsg)
          /\ \E r \in ResolveLocation(op.location_id, "45202", prefFile, Now) : Truthy(r.loc)
    /\ op.name \in CatalogTools =>
          LET used(outs) == {LocUsed(o) : o \in outs}
              details == used(get_product_details(op.location_id, prefFile, Now))
          IN  /\ details = used(get_product_images(op.location_id, prefFile, Now))
              /\ details = used(search_products_by_id(op.location_id, prefFile, Now))

\* C23 witness: search_products_by_id, given no location_id and finding no
\* preference, failed where search_products with a zip code can resolve.
C23_Witness ==
    /\ op.name = "search_products_by_id"
    /\ ret = DictFail(NoPreferredMsg)
    /\ \E r \in ResolveLocation(op.location_id, "45202", prefFile, Now) : r.loc = "01400441"

-----------------------------------------------------------------------------
\* Properties of the pricing of get_product_details

\* C29 as stated: for every pair of prices the pricing reported has savings
\* that are not negative and are above zero exactly when on_sale is true; a
\* promo price above the regular price gives savings 0, and a promo price of 0
\* below a regular price above zero gives on_sale with savings equal to the
\* regular price.
C29_SavingsMatchOnSale ==
    (pricing.done /\ pricing.success) =>
        LET regular == catalog[1].regular
            promo   == catalog[1].promo
        IN  /\ pricing.savings >= 0
            /\ pricing.savings > 0 <=> pricing.on_sale
            /\ (regular.k = "num" /\ promo.k = "num" /\ promo.v > regular.v) =>
                  pricing.savings = 0
            /\ (regular.k = "num" /\ promo.k = "num" /\ promo.v = 0 /\ regular.v > 0) =>
                  (pricing.on_sale /\ pricing.savings = regular.v)

-----------------------------------------------------------------------------
\* Properties of writers and readers of the preference file

\* The operation was a set_preferred_location_id whose write went through.
Wrote(o, lg) ==
    /\ o.name = "set_preferred_location_id"
    /\ \E i \in DOMAIN lg : lg[i].ev = "save" /\ lg[i].ok

====
